---------------------------- MODULE Spec2Model ----------------------------
(***************************************************************************)
(* Model of zuno-gas-meter-sensor.ino: the debounced pulse accumulator     *)
(* with EEPROM persistence, and the sleep/wake scheduling of the sketch.   *)
(*                                                                         *)
(* Every DWORD / uint32_t of the sketch is a pair <<hi, lo>> of 16-bit     *)
(* halves (value hi * 65536 + lo), so that the arithmetic keeps its 32-bit *)
(* width: sums, differences and products wrap modulo 2^32 exactly as on    *)
(* the device.                                                             *)
(***************************************************************************)
EXTENDS Integers, Sequences, FiniteSets, TLC

(***************************************************************************)
(* 32-bit unsigned words                                                   *)
(***************************************************************************)

\* Radix of one half of a 32-bit word (2^16).
B16 ==
    256 * 256

\* The DWORD whose value is the natural number n (n < 2^31).
U(n) ==
    <<n \div B16, n % B16>>

\* The value of a DWORD below 2^31 as a number.
Val(x) ==
    x[1] * B16 + x[2]

\* True when the DWORD is below 2^31, so that Val is exact in the checker.
Small(x) ==
    x[1] < 32768

\* a + b on uint32_t (wraps modulo 2^32).
Add32(a, b) ==
    LET lo == a[2] + b[2]
    IN  <<(a[1] + b[1] + (lo \div B16)) % B16, lo % B16>>

\* a - b on uint32_t (wraps modulo 2^32).
Sub32(a, b) ==
    LET lo == a[2] - b[2]
        bor == IF lo < 0 THEN 1 ELSE 0
    IN  <<(a[1] - b[1] - bor) % B16, lo % B16>>

\* a > b on uint32_t.
Gt32(a, b) ==
    \/ a[1] > b[1]
    \/ a[1] = b[1] /\ a[2] > b[2]

\* a < b on uint32_t.
Lt32(a, b) ==
    Gt32(b, a)

\* n * a on uint32_t for a small literal factor n (wraps modulo 2^32).
Mul32(n, a) ==
    LET lo == n * a[2]
    IN  <<(n * a[1] + (lo \div B16)) % B16, lo % B16>>

\* a / n on uint32_t for a small literal divisor n (integer division).
Div32(a, n) ==
    LET r == (a[1] % n) * B16 + a[2]
    IN  <<a[1] \div n, r \div n>>

Zero32 == <<0, 0>>

One32 == <<0, 1>>

\* The literal 2147483648 (2^31) of since() and after(), and the value of 1 << 31.
HALF == <<32768, 0>>

\* The largest DWORD, 0xFFFFFFFF: the content of an erased EEPROM cell.
ERASED == <<65535, 65535>>

(***************************************************************************)
(* Timing utilities                                                        *)
(***************************************************************************)

\* since() with the fold threshold of the reading-only variant (65536).
since_fold16(then, now) ==
    LET diff == Sub32(now, then)
    IN  IF Gt32(diff, <<1, 0>>) THEN Sub32(diff, <<1, 0>>) ELSE diff

\* uint32_t since(DWORD then, DWORD now)
since(then, now) ==
    LET diff == Sub32(now, then)
    IN  IF Gt32(diff, HALF) THEN Sub32(diff, HALF) ELSE diff

\* An after() that is false at exactly half the range.
after_strict(then, when) ==
    LET diff == Sub32(when, then)
    IN  IF Lt32(diff, HALF) THEN TRUE ELSE FALSE

\* bool after(DWORD then, DWORD when)
after(then, when) ==
    LET diff == Sub32(when, then)
    IN  IF Gt32(diff, HALF) THEN FALSE ELSE TRUE

(***************************************************************************)
(* Program constants                                                       *)
(***************************************************************************)

\* #define STATE_UPDATE_PERIOD 15
STATE_UPDATE_PERIOD == 15

\* Largest value the reading may show (the literal 99999999 of get_reading).
READING_MAX == 99999999

\* The odometer modulus (the literal 100000000 of get_reading).
READING_MODULUS == 100000000

\* Delay of the first report after setup(): next_report_seconds(5).
FIRST_REPORT_SECS == 5

\* Delay of the report after a change of the initial reading (millis() + 5000).
RESEED_REPORT_MILLIS == 5000

\* Configuration value IDs (enum starting at INITIAL_METER_READING = 64).
INITIAL_METER_READING == 64

METER_REPORT_PERIOD == 65

DEBOUNCE_TIME == 66

PULSE_INCREMENT == 67

(***************************************************************************)
(* Bounds of the model                                                     *)
(***************************************************************************)

\* Events of the environment per behaviour: clock advances, pulse edges,
\* activations of the main context (loop() runs and Z-Wave callbacks) and
\* power losses.
MaxEvents == 4

\* Amounts by which the millisecond clock advances in one step.
TickSet == {U(1), U(4999), HALF}

\* Configured initial readings (declared range 0..99999999).
InitialSet == {U(0), U(READING_MAX)}

\* Configured report periods in seconds (declared range 1..3600).
PeriodSet == {U(1), U(60)}

\* Configured debounce windows in milliseconds (declared range 0..30000).
DebounceSet == {U(0), U(5000)}

\* Configured reading increments per pulse (declared range 1..1000000).
IncrementSet == {U(1), U(1000000)}

(***************************************************************************)
(* State                                                                   *)
(***************************************************************************)

VARIABLES
    millis,                    \* the value millis() returns
    last_pulse_millis,
    next_report_millis,
    next_state_update_millis,
    initial_meter_reading,
    meter_report_period,
    debounce_time,
    pulse_increment,
    reading_valid,
    reading,
    pulses,
    reading_delta,
    pulses_delta,
    eeprom,                    \* the three EEPROM cells
    cfg,                       \* the Z-Wave configuration store (zunoLoadCFGParam)
    attached,                  \* attachInterrupt() has run in this power cycle
    wup,                       \* seconds last given to zunoSetCustomWUPTimer
    pc,                        \* main context: stack of code positions
    loc,                       \* main context: local variables
    io,                        \* effect on a collaborator of the last step
    cur,                       \* history: the call in progress
    last,                      \* history: the call completed last
    pre,                       \* history: the RAM state lost at the last power loss
    used,                      \* history: events spent, pulses accepted, their spacing
    probe                      \* inputs and result of a timing utility applied alone

timeVars == <<millis, last_pulse_millis, next_report_millis, next_state_update_millis>>

confVars == <<initial_meter_reading, meter_report_period, debounce_time, pulse_increment>>

ctrVars == <<reading, pulses, reading_delta, pulses_delta, reading_valid>>

histVars == <<cur, last, pre, used>>

vars ==
    <<timeVars, confVars, ctrVars, eeprom, cfg, attached, wup, pc, loc, io, histVars, probe>>

\* The EEPROM record: READING_ADDRESS, PULSE_COUNT_ADDRESS, INIT_COPY_ADDRESS.
EepromRecord(r, p, c) ==
    [reading |-> r, pulses |-> p, init_copy |-> c]

\* No call in progress / no call completed yet.
NoCall ==
    [op |-> "none", wrote |-> FALSE, pulsed |-> FALSE, valid0 |-> FALSE,
     r0 |-> Zero32, p0 |-> Zero32, rd0 |-> Zero32, pd0 |-> Zero32,
     accr |-> Zero32, accp |-> Zero32, b0 |-> Zero32, val |-> Zero32]

\* A true duration in milliseconds: <<number of full 2^32 periods, remainder>>.
NoTime ==
    <<0, Zero32>>

\* The duration t prolonged by the DWORD d.
Later(t, d) ==
    LET sum == Add32(t[2], d)
    IN  <<t[1] + (IF Lt32(sum, d) THEN 1 ELSE 0), sum>>

\* The duration t is shorter than the DWORD w.
Shorter(t, w) ==
    t[1] = 0 /\ Lt32(t[2], w)

\* History at power-on.
NothingUsed ==
    [ev |-> 0, acc |-> 0, rej |-> 0, age |-> NoTime, gap |-> NoTime, chk |-> 0,
     seeds |-> 0, gpv |-> Zero32, gpa |-> -1]

\* No timing utility is being applied alone.
NoProbe ==
    [fn |-> "none", then |-> Zero32, d |-> Zero32, now |-> Zero32,
     out |-> Zero32, due |-> FALSE, train |-> <<>>]

\* No power loss recorded.
NoLoss ==
    [lost |-> FALSE]

\* Locals of the main context before any function has set them.
NoLocals ==
    [now |-> Zero32, init_value |-> Zero32, init_copy |-> Zero32,
     reseed |-> FALSE, in_network |-> FALSE, param |-> 0,
     flush |-> FALSE, due |-> FALSE, sent |-> 0, acc0 |-> 0]

\* RAM as the C++ runtime leaves it before setup(): zero-initialised globals
\* and the initialisers of lines 214-220 and 303.
RamAtReset ==
    /\ millis = Zero32
    /\ last_pulse_millis = HALF
    /\ next_report_millis = Zero32
    /\ next_state_update_millis = Zero32
    /\ initial_meter_reading = Zero32
    /\ meter_report_period = Zero32
    /\ debounce_time = Zero32
    /\ pulse_increment = Zero32
    /\ reading_valid = FALSE
    /\ reading = Zero32
    /\ pulses = Zero32
    /\ reading_delta = Zero32
    /\ pulses_delta = Zero32
    /\ attached = FALSE
    /\ wup = Zero32
    /\ pc = <<"boot">>
    /\ loc = NoLocals

\* A content of the configuration store.
Cfg(i, p, d, k) ==
    [initial |-> i, period |-> p, debounce |-> d, increment |-> k]

\* The configurations the store holds at the first power-on: the declared
\* defaults (0, 60 s, 5000 ms, 1), and the largest initial reading and
\* increment with the smallest period and no debounce window.
CfgSet ==
    {Cfg(U(0), U(60), U(5000), U(1)), Cfg(U(READING_MAX), U(1), U(0), U(1000000))}

\* The factory state: erased or zeroed EEPROM, any valid configuration.
Init ==
    /\ RamAtReset
    /\ eeprom \in {EepromRecord(ERASED, ERASED, ERASED), EepromRecord(Zero32, Zero32, Zero32)}
    /\ cfg \in CfgSet
    /\ io = "none"
    /\ cur = NoCall
    /\ last = NoCall
    /\ pre = NoLoss
    /\ used = NothingUsed
    /\ probe = NoProbe

(***************************************************************************)
(* Control of the main context                                             *)
(***************************************************************************)

\* The code position the main context is at.
At(l) ==
    Head(pc) = l

\* The code positions whose next statement reads millis().
ClockLabels ==
    {"setup_report", "loop_su_next", "loop_rep_next", "loop_wup", "cp_wup"}

\* The clock is read only by interrupt() and by the statements at ClockLabels,
\* and a clock advance commutes with every other statement: an advance is
\* therefore taken immediately before a step that reads the clock (possibly
\* after further advances), which leaves every reading of the clock possible.
ClockObserved ==
    io # "tick"

\* The main context executes the statement at position l.
Runs(l) ==
    /\ At(l)
    /\ ClockObserved \/ l \in ClockLabels

Goto(l) ==
    pc' = <<l>> \o Tail(pc)

\* Call a function whose first position is entry; continue at ret afterwards.
Call(entry, ret) ==
    pc' = <<entry, ret>> \o Tail(pc)

Return ==
    pc' = Tail(pc)

\* The main context is between activations (asleep or waiting).
Idle ==
    pc = <<"idle">>

\* The effect e of a step on a collaborator: an EEPROM cell written, a report
\* sent, the wake timer armed, a pulse accepted or rejected, the clock advanced.
Effect(e) ==
    /\ io' = e
    /\ UNCHANGED probe

\* History: the pulse count starts again (reset_pulses or a re-seed), so
\* that the next get_pulses has no earlier call to be compared with.
ForgetPulses ==
    used' = [used EXCEPT !.gpv = Zero32, !.gpa = -1]

\* History: one more event of the environment.
Spend ==
    used' = [used EXCEPT !.ev = @ + 1]

\* History: a channel getter, reset callback or configuration handler is entered.
Enter(op) ==
    cur' = [NoCall EXCEPT !.op = op, !.valid0 = reading_valid,
                          !.r0 = Add32(reading, reading_delta),
                          !.p0 = Add32(pulses, pulses_delta),
                          !.rd0 = reading_delta, !.pd0 = pulses_delta]

\* History: the call in progress returns val.
Leave(val) ==
    /\ last' = [cur EXCEPT !.val = val]
    /\ cur' = NoCall

\* History: the call in progress, if any, writes an EEPROM cell.
Wrote ==
    cur' = IF cur.op = "none" THEN cur ELSE [cur EXCEPT !.wrote = TRUE]

(***************************************************************************)
(* Environment: the clock, the pulse interrupt, power loss                 *)
(***************************************************************************)

\* millis() advances by d milliseconds (wrapping after 2^32).
Tick(d) ==
    /\ millis' = Add32(millis, d)
    /\ Effect("tick")
    /\ used' = [used EXCEPT !.ev = @ + 1, !.age = Later(@, d)]
    /\ UNCHANGED <<last_pulse_millis, next_report_millis, next_state_update_millis>>
    /\ UNCHANGED <<confVars, ctrVars, eeprom, cfg, attached, wup, pc, loc, cur, last, pre>>

\* void inc_reading(DWORD value)
inc_reading(value) ==
    /\ pulses_delta' = Add32(pulses_delta, One32)
    /\ reading_delta' = Add32(reading_delta, value)

\* The debounce test of interrupt(): the pulse at time now is ignored.
InDebounceWindow(now) ==
    Lt32(since(last_pulse_millis, now), debounce_time)

\* History: an accepted pulse is noted in the calls in progress and completed.
NotePulse ==
    /\ cur' = IF cur.op = "none" THEN cur
              ELSE [cur EXCEPT !.pulsed = TRUE,
                               !.accr = Add32(@, pulse_increment),
                               !.accp = Add32(@, One32)]
    /\ last' = IF last.op = "none" THEN last ELSE [last EXCEPT !.pulsed = TRUE]

\* An interrupt() that stores the pulse count itself when it accepts a pulse.
Interrupt_stores ==
    /\ attached
    /\ LET now == millis
       IN  IF InDebounceWindow(now)
           THEN /\ used' = [used EXCEPT !.ev = @ + 1, !.rej = @ + 1]
                /\ Effect("pulse_rejected")
                /\ UNCHANGED <<last_pulse_millis, reading_delta, pulses_delta, cur, last>>
                /\ UNCHANGED eeprom
           ELSE /\ last_pulse_millis' = now
                /\ inc_reading(pulse_increment)
                /\ NotePulse
                /\ Effect("pulse_accepted")
                /\ used' = [used EXCEPT !.ev = @ + 1, !.acc = @ + 1,
                                         !.age = NoTime, !.gap = used.age]
                /\ eeprom' = [eeprom EXCEPT !.pulses = Add32(pulses, pulses_delta')]
    /\ UNCHANGED <<millis, next_report_millis, next_state_update_millis>>
    /\ UNCHANGED <<confVars, reading, pulses, reading_valid>>
    /\ UNCHANGED <<cfg, attached, wup, pc, loc, pre>>

\* An interrupt() that remembers the time of every pulse, also of a rejected
\* one.
Interrupt_restarts ==
    /\ attached
    /\ LET now == millis
       IN  /\ last_pulse_millis' = now
           /\ IF InDebounceWindow(now)
              THEN /\ used' = [used EXCEPT !.ev = @ + 1, !.rej = @ + 1]
                   /\ Effect("pulse_rejected")
                   /\ UNCHANGED <<reading_delta, pulses_delta, cur, last>>
              ELSE /\ inc_reading(pulse_increment)
                   /\ NotePulse
                   /\ Effect("pulse_accepted")
                   /\ used' = [used EXCEPT !.ev = @ + 1, !.acc = @ + 1,
                                            !.age = NoTime, !.gap = used.age]
    /\ UNCHANGED <<millis, next_report_millis, next_state_update_millis>>
    /\ UNCHANGED <<confVars, reading, pulses, reading_valid>>
    /\ UNCHANGED <<eeprom, cfg, attached, wup, pc, loc, pre>>

\* void interrupt(): a falling edge on the pulse pin, at any point of the main
\* context once attachInterrupt() has run.
Interrupt ==
    /\ attached
    /\ LET now == millis
       IN  IF InDebounceWindow(now)
           THEN /\ used' = [used EXCEPT !.ev = @ + 1, !.rej = @ + 1]
                /\ Effect("pulse_rejected")
                /\ UNCHANGED <<last_pulse_millis, reading_delta, pulses_delta, cur, last>>
           ELSE /\ last_pulse_millis' = now
                /\ inc_reading(pulse_increment)
                /\ NotePulse
                /\ Effect("pulse_accepted")
                /\ used' = [used EXCEPT !.ev = @ + 1, !.acc = @ + 1,
                                         !.age = NoTime, !.gap = used.age]
    /\ UNCHANGED <<millis, next_report_millis, next_state_update_millis>>
    /\ UNCHANGED <<confVars, reading, pulses, reading_valid>>
    /\ UNCHANGED <<eeprom, cfg, attached, wup, pc, loc, pre>>

\* init_reading() is inside its re-seed branch (lines 423-427) with a write
\* of the branch still to do.
InReseed ==
    Head(pc) \in {"ir_put_reading", "ir_put_pulses", "ir_put_copy"}

\* Power is lost (or the board resets): RAM returns to its reset state, the
\* EEPROM and the configuration store keep their content.
PowerLoss ==
    /\ millis' = Zero32
    /\ last_pulse_millis' = HALF
    /\ next_report_millis' = Zero32
    /\ next_state_update_millis' = Zero32
    /\ initial_meter_reading' = Zero32
    /\ meter_report_period' = Zero32
    /\ debounce_time' = Zero32
    /\ pulse_increment' = Zero32
    /\ reading_valid' = FALSE
    /\ reading' = Zero32
    /\ pulses' = Zero32
    /\ reading_delta' = Zero32
    /\ pulses_delta' = Zero32
    /\ attached' = FALSE
    /\ wup' = Zero32
    /\ pc' = <<"boot">>
    /\ loc' = NoLocals
    /\ Effect("none")
    /\ cur' = NoCall
    /\ last' = NoCall
    /\ pre' = [lost |-> TRUE, quiet |-> Idle /\ reading_valid, valid |-> reading_valid,
               reading |-> reading, reading_delta |-> reading_delta,
               pulses |-> pulses, pulses_delta |-> pulses_delta,
               stored |-> eeprom, reseeding |-> InReseed]
    /\ used' = [NothingUsed EXCEPT !.ev = used.ev + 1]
    /\ UNCHANGED <<eeprom, cfg>>

(***************************************************************************)
(* setup() and init_reading()                                              *)
(***************************************************************************)

\* void next_report_seconds(DWORD secs)
next_report_seconds(secs) ==
    next_report_millis' = Add32(millis, Mul32(1000, secs))

\* void next_state_update(DWORD secs)
next_state_update(secs) ==
    next_state_update_millis' = Add32(millis, Mul32(1000, secs))

\* setup(), lines 676-706: load the four configuration values, then call
\* init_reading().
SetupLoad ==
    /\ Runs("boot")
    /\ initial_meter_reading' = cfg.initial
    /\ meter_report_period' = cfg.period
    /\ debounce_time' = cfg.debounce
    /\ pulse_increment' = cfg.increment
    /\ Call("ir_begin", "setup_attach")
    /\ Effect("none")
    /\ UNCHANGED <<timeVars, ctrVars, eeprom, cfg, attached, wup, loc, histVars>>

\* setup(), line 713: attachInterrupt(PULSE_PIN, interrupt, FALLING).
SetupAttach ==
    /\ Runs("setup_attach")
    /\ attached' = TRUE
    /\ Goto("setup_report")
    /\ Effect("none")
    /\ pre' = NoLoss
    /\ UNCHANGED <<timeVars, confVars, ctrVars, eeprom, cfg, wup, loc, cur, last, used>>

\* setup(), lines 716-717: schedule the first report and go to sleep.
SetupReport ==
    /\ Runs("setup_report")
    /\ next_report_seconds(U(FIRST_REPORT_SECS))
    /\ pc' = <<"idle">>
    /\ Effect("none")
    /\ UNCHANGED <<millis, last_pulse_millis, next_state_update_millis>>
    /\ UNCHANGED <<confVars, ctrVars, eeprom, cfg, attached, wup, loc, histVars>>

\* init_reading() that re-seeds only when the stored marker is erased.
SeedMismatch_erased(init_value, init_copy) ==
    init_copy = ERASED

\* An init_reading() that re-seeds at every run.
SeedMismatch_always(init_value, init_copy) ==
    TRUE

\* The test of init_reading(), line 418.
SeedMismatch(init_value, init_copy) ==
    init_value # init_copy

\* init_reading(), lines 415-418: read the seed marker and compare it with
\* the configured initial reading.
InitBegin ==
    /\ Runs("ir_begin")
    /\ LET init_value == initial_meter_reading
           init_copy == eeprom.init_copy
       IN  /\ loc' = [loc EXCEPT !.init_value = init_value, !.init_copy = init_copy,
                                 !.reseed = SeedMismatch(init_value, init_copy)]
           /\ IF SeedMismatch(init_value, init_copy)
              THEN Goto("ir_put_reading")
              ELSE Goto("ir_load")
    /\ Effect("none")
    /\ used' = [used EXCEPT !.chk = @ + 1]
    /\ UNCHANGED <<timeVars, confVars, ctrVars, eeprom, cfg, attached, wup, cur, last, pre>>

\* An init_reading() that writes the seed marker first, with the reading.
InitPutReading_marks ==
    /\ Runs("ir_put_reading")
    /\ pulses' = Zero32
    /\ eeprom' = [eeprom EXCEPT !.reading = loc.init_value, !.init_copy = loc.init_value]
    /\ Effect("put_reading")
    /\ Wrote
    /\ Goto("ir_put_pulses")
    /\ UNCHANGED <<timeVars, confVars, reading, reading_delta, pulses_delta, reading_valid>>
    /\ UNCHANGED <<cfg, attached, wup, loc, last, pre, used>>

\* init_reading(), lines 423-425: pulses = 0; EEPROM.put(READING_ADDRESS, init_value).
InitPutReading ==
    /\ Runs("ir_put_reading")
    /\ pulses' = Zero32
    /\ eeprom' = [eeprom EXCEPT !.reading = loc.init_value]
    /\ Effect("put_reading")
    /\ Wrote
    /\ Goto("ir_put_pulses")
    /\ UNCHANGED <<timeVars, confVars, reading, reading_delta, pulses_delta, reading_valid>>
    /\ UNCHANGED <<cfg, attached, wup, loc, last, pre>>
    /\ ForgetPulses

\* init_reading(), line 426: EEPROM.put(PULSE_COUNT_ADDRESS, pulses).
InitPutPulses ==
    /\ Runs("ir_put_pulses")
    /\ eeprom' = [eeprom EXCEPT !.pulses = pulses]
    /\ Effect("put_pulses")
    /\ Wrote
    /\ Goto("ir_put_copy")
    /\ UNCHANGED <<timeVars, confVars, ctrVars, cfg, attached, wup, loc, last, pre, used>>

\* init_reading(), line 427: EEPROM.put(INIT_COPY_ADDRESS, init_value).
InitPutCopy ==
    /\ Runs("ir_put_copy")
    /\ eeprom' = [eeprom EXCEPT !.init_copy = loc.init_value]
    /\ Effect("put_init_copy")
    /\ Wrote
    /\ Goto("ir_load")
    /\ UNCHANGED <<timeVars, confVars, ctrVars, cfg, attached, wup, loc, last, pre, used>>

\* init_reading() loading the reading only: the pulse count keeps its RAM value.
InitLoad_reading_only ==
    /\ Runs("ir_load")
    /\ reading' = eeprom.reading
    /\ Goto("ir_end")
    /\ Effect("none")
    /\ UNCHANGED <<timeVars, confVars, pulses, reading_delta, pulses_delta, reading_valid>>
    /\ UNCHANGED <<eeprom, cfg, attached, wup, loc, histVars>>

\* init_reading(), lines 431-432: load both bases from the EEPROM.
InitLoad ==
    /\ Runs("ir_load")
    /\ reading' = eeprom.reading
    /\ pulses' = eeprom.pulses
    /\ Goto("ir_end")
    /\ Effect("none")
    /\ UNCHANGED <<timeVars, confVars, reading_delta, pulses_delta, reading_valid>>
    /\ UNCHANGED <<eeprom, cfg, attached, wup, loc, histVars>>

\* init_reading(), lines 442-443: reading_delta = 0; reading_valid = true.
InitEnd ==
    /\ Runs("ir_end")
    /\ reading_delta' = Zero32
    /\ reading_valid' = TRUE
    /\ Goto("ir_ret")
    /\ Effect("none")
    /\ UNCHANGED <<timeVars, confVars, reading, pulses, pulses_delta>>
    /\ UNCHANGED <<eeprom, cfg, attached, wup, loc, histVars>>

\* init_reading() returns to its caller (line 445).
InitReturn ==
    /\ Runs("ir_ret")
    /\ Return
    /\ Effect("none")
    /\ UNCHANGED <<timeVars, confVars, ctrVars, eeprom, cfg, attached, wup, loc, histVars>>

(***************************************************************************)
(* The counters: get_reading(), get_pulses(), reset_reading(),             *)
(* reset_pulses()                                                          *)
(***************************************************************************)

\* get_reading(), line 372: the number overflows like a gas meter does.
Odometer(r) ==
    IF Gt32(r, U(READING_MAX)) THEN Sub32(r, U(READING_MODULUS)) ELSE r

\* A channel getter, reset callback or handler is called; it returns to ret.
CallOp(op, entry, ret) ==
    /\ Call(entry, ret)
    /\ Enter(op)

\* A getter that calls init_reading() every time.
NeedsInit_always ==
    TRUE

\* The test "if (!reading_valid)" of the getters, lines 366 and 381.
NeedsInit ==
    ~reading_valid

\* get_reading(), lines 366-367: if (!reading_valid) init_reading().
GetReadingBegin ==
    /\ Runs("gr_begin")
    /\ IF NeedsInit THEN Call("ir_begin", "gr_test") ELSE Goto("gr_test")
    /\ Effect("none")
    /\ UNCHANGED <<timeVars, confVars, ctrVars, eeprom, cfg, attached, wup, loc, histVars>>

\* A getter that folds its delta whether or not it is zero.
DeltaPending_always(delta) ==
    TRUE

\* The tests "if (reading_delta)" and "if (pulses_delta)" of the getters.
DeltaPending(delta) ==
    delta # Zero32

\* get_reading(), line 369: if (reading_delta).
GetReadingTest ==
    /\ Runs("gr_test")
    /\ IF DeltaPending(reading_delta) THEN Goto("gr_add") ELSE Goto("gr_ret")
    /\ Effect("none")
    /\ UNCHANGED <<timeVars, confVars, ctrVars, eeprom, cfg, attached, wup, loc, histVars>>

\* get_reading(), line 370: reading += reading_delta.
GetReadingAdd ==
    /\ Runs("gr_add")
    /\ reading' = Add32(reading, reading_delta)
    /\ cur' = [cur EXCEPT !.b0 = reading]
    /\ Goto("gr_zero")
    /\ Effect("none")
    /\ UNCHANGED <<timeVars, confVars, pulses, reading_delta, pulses_delta, reading_valid>>
    /\ UNCHANGED <<eeprom, cfg, attached, wup, loc, last, pre, used>>

\* get_reading(), line 371: reading_delta = 0.
GetReadingZero ==
    /\ Runs("gr_zero")
    /\ reading_delta' = Zero32
    /\ Goto("gr_wrap")
    /\ Effect("none")
    /\ UNCHANGED <<timeVars, confVars, reading, pulses, pulses_delta, reading_valid>>
    /\ UNCHANGED <<eeprom, cfg, attached, wup, loc, histVars>>

\* get_reading(), line 372: if (reading > 99999999) reading -= 100000000.
GetReadingWrap ==
    /\ Runs("gr_wrap")
    /\ reading' = Odometer(reading)
    /\ Goto("gr_put")
    /\ Effect("none")
    /\ UNCHANGED <<timeVars, confVars, pulses, reading_delta, pulses_delta, reading_valid>>
    /\ UNCHANGED <<eeprom, cfg, attached, wup, loc, histVars>>

\* A get_reading() that clears its delta only when the write is done.
GetReadingPut_then_zero ==
    /\ Runs("gr_put")
    /\ eeprom' = [eeprom EXCEPT !.reading = reading]
    /\ reading_delta' = Zero32
    /\ Effect("put_reading")
    /\ Wrote
    /\ Goto("gr_ret")
    /\ UNCHANGED <<timeVars, confVars, reading, pulses, pulses_delta, reading_valid>>
    /\ UNCHANGED <<cfg, attached, wup, loc, last, pre, used>>

\* get_reading(), line 373: EEPROM.put(READING_ADDRESS, reading).
GetReadingPut ==
    /\ Runs("gr_put")
    /\ eeprom' = [eeprom EXCEPT !.reading = reading]
    /\ Effect("put_reading")
    /\ Wrote
    /\ Goto("gr_ret")
    /\ UNCHANGED <<timeVars, confVars, ctrVars, cfg, attached, wup, loc, last, pre, used>>

\* get_reading(), line 376: return reading.
GetReadingReturn ==
    /\ Runs("gr_ret")
    /\ Leave(reading)
    /\ Return
    /\ Effect("none")
    /\ UNCHANGED <<timeVars, confVars, ctrVars, eeprom, cfg, attached, wup, loc, pre, used>>

\* get_pulses(), lines 381-382: if (!reading_valid) init_reading().
GetPulsesBegin ==
    /\ Runs("gp_begin")
    /\ IF NeedsInit THEN Call("ir_begin", "gp_test") ELSE Goto("gp_test")
    /\ Effect("none")
    /\ UNCHANGED <<timeVars, confVars, ctrVars, eeprom, cfg, attached, wup, loc, histVars>>

\* get_pulses(), line 384: if (pulses_delta).
GetPulsesTest ==
    /\ Runs("gp_test")
    /\ IF DeltaPending(pulses_delta) THEN Goto("gp_add") ELSE Goto("gp_ret")
    /\ Effect("none")
    /\ UNCHANGED <<timeVars, confVars, ctrVars, eeprom, cfg, attached, wup, loc, histVars>>

\* A get_pulses() that takes the delta for the count.
GetPulsesAdd_assigns ==
    /\ Runs("gp_add")
    /\ pulses' = pulses_delta
    /\ Goto("gp_zero")
    /\ Effect("none")
    /\ UNCHANGED <<timeVars, confVars, reading, reading_delta, pulses_delta, reading_valid>>
    /\ UNCHANGED <<eeprom, cfg, attached, wup, loc, histVars>>

\* get_pulses(), line 385: pulses += pulses_delta.
GetPulsesAdd ==
    /\ Runs("gp_add")
    /\ pulses' = Add32(pulses, pulses_delta)
    /\ Goto("gp_zero")
    /\ Effect("none")
    /\ UNCHANGED <<timeVars, confVars, reading, reading_delta, pulses_delta, reading_valid>>
    /\ UNCHANGED <<eeprom, cfg, attached, wup, loc, histVars>>

\* get_pulses(), line 386: pulses_delta = 0.
GetPulsesZero ==
    /\ Runs("gp_zero")
    /\ pulses_delta' = Zero32
    /\ Goto("gp_put")
    /\ Effect("none")
    /\ UNCHANGED <<timeVars, confVars, reading, pulses, reading_delta, reading_valid>>
    /\ UNCHANGED <<eeprom, cfg, attached, wup, loc, histVars>>

\* get_pulses(), line 387: EEPROM.put(PULSE_COUNT_ADDRESS, pulses).
GetPulsesPut ==
    /\ Runs("gp_put")
    /\ eeprom' = [eeprom EXCEPT !.pulses = pulses]
    /\ Effect("put_pulses")
    /\ Wrote
    /\ Goto("gp_ret")
    /\ UNCHANGED <<timeVars, confVars, ctrVars, cfg, attached, wup, loc, last, pre, used>>

\* get_pulses(), line 390: return pulses.
GetPulsesReturn ==
    /\ Runs("gp_ret")
    /\ Leave(pulses)
    /\ Return
    /\ Effect("none")
    /\ UNCHANGED <<timeVars, confVars, ctrVars, eeprom, cfg, attached, wup, loc, pre>>
    /\ used' = [used EXCEPT !.gpv = pulses, !.gpa = used.acc]

\* reset_reading(), line 399: reading = 0.
ResetReadingBase ==
    /\ Runs("rr_base")
    /\ reading' = Zero32
    /\ Goto("rr_delta")
    /\ Effect("none")
    /\ UNCHANGED <<timeVars, confVars, pulses, reading_delta, pulses_delta, reading_valid>>
    /\ UNCHANGED <<eeprom, cfg, attached, wup, loc, histVars>>

\* reset_reading(), line 400: reading_delta = 0.
ResetReadingDelta ==
    /\ Runs("rr_delta")
    /\ reading_delta' = Zero32
    /\ Goto("rr_put")
    /\ Effect("none")
    /\ UNCHANGED <<timeVars, confVars, reading, pulses, pulses_delta, reading_valid>>
    /\ UNCHANGED <<eeprom, cfg, attached, wup, loc, histVars>>

\* reset_reading(), line 401: EEPROM.put(READING_ADDRESS, reading).
ResetReadingPut ==
    /\ Runs("rr_put")
    /\ eeprom' = [eeprom EXCEPT !.reading = reading]
    /\ Effect("put_reading")
    /\ Wrote
    /\ Goto("rr_ret")
    /\ UNCHANGED <<timeVars, confVars, ctrVars, cfg, attached, wup, loc, last, pre, used>>

\* reset_reading() returns.
ResetReadingReturn ==
    /\ Runs("rr_ret")
    /\ Leave(Zero32)
    /\ Return
    /\ Effect("none")
    /\ UNCHANGED <<timeVars, confVars, ctrVars, eeprom, cfg, attached, wup, loc, pre, used>>

\* reset_pulses(), line 405: pulses = 0.
ResetPulsesBase ==
    /\ Runs("rp_base")
    /\ pulses' = Zero32
    /\ Goto("rp_delta")
    /\ Effect("none")
    /\ UNCHANGED <<timeVars, confVars, reading, reading_delta, pulses_delta, reading_valid>>
    /\ UNCHANGED <<eeprom, cfg, attached, wup, loc, cur, last, pre>>
    /\ ForgetPulses

\* reset_pulses(), line 406: pulses_delta = 0.
ResetPulsesDelta ==
    /\ Runs("rp_delta")
    /\ pulses_delta' = Zero32
    /\ Goto("rp_put")
    /\ Effect("none")
    /\ UNCHANGED <<timeVars, confVars, reading, pulses, reading_delta, reading_valid>>
    /\ UNCHANGED <<eeprom, cfg, attached, wup, loc, histVars>>

\* A reset_pulses() that leaves the EEPROM cell as it is.
ResetPulsesPut_skipped ==
    /\ Runs("rp_put")
    /\ Effect("none")
    /\ Goto("rp_ret")
    /\ UNCHANGED <<timeVars, confVars, ctrVars, eeprom, cfg, attached, wup, loc, histVars>>

\* reset_pulses(), line 407: EEPROM.put(PULSE_COUNT_ADDRESS, pulses).
ResetPulsesPut ==
    /\ Runs("rp_put")
    /\ eeprom' = [eeprom EXCEPT !.pulses = pulses]
    /\ Effect("put_pulses")
    /\ Wrote
    /\ Goto("rp_ret")
    /\ UNCHANGED <<timeVars, confVars, ctrVars, cfg, attached, wup, loc, last, pre, used>>

\* reset_pulses() returns.
ResetPulsesReturn ==
    /\ Runs("rp_ret")
    /\ Leave(Zero32)
    /\ Return
    /\ Effect("none")
    /\ UNCHANGED <<timeVars, confVars, ctrVars, eeprom, cfg, attached, wup, loc, pre, used>>

(***************************************************************************)
(* Scheduling: set_wakeup_timer(), config_parameter_changed(), loop()      *)
(***************************************************************************)

\* The seconds set_wakeup_timer() computes at time now (lines 276-283).
WakeupSecs_noslack(now) ==
    LET report_secs == Div32(Sub32(next_report_millis, now), 1000)
        state_update_secs == Div32(Sub32(next_state_update_millis, now), 1000)
        sooner == IF Lt32(state_update_secs, report_secs)
                  THEN state_update_secs ELSE report_secs
    IN  IF Lt32(sooner, One32) THEN One32 ELSE sooner

\* set_wakeup_timer(), lines 276-283: the seconds to sleep.
WakeupSecs(now) ==
    LET report_secs == Add32(Div32(Sub32(next_report_millis, now), 1000), One32)
        state_update_secs ==
            Add32(Div32(Sub32(next_state_update_millis, now), 1000), One32)
        sooner == IF Lt32(state_update_secs, report_secs)
                  THEN state_update_secs ELSE report_secs
    IN  IF Lt32(sooner, One32) THEN One32 ELSE sooner

\* void set_wakeup_timer(): zunoSetCustomWUPTimer(secs).
set_wakeup_timer ==
    /\ wup' = WakeupSecs(millis)
    /\ Effect("arm")

\* A handler that re-arms the wake timer for every parameter.
ConfigRearms_every(param) ==
    TRUE

\* config_parameter_changed(), lines 313 and 324: the branches that call
\* set_wakeup_timer().
ConfigRearms(param) ==
    param \in {INITIAL_METER_READING, METER_REPORT_PERIOD}

\* The Z-Wave core delivers a configuration change: it stores the value and
\* calls config_parameter_changed(param, value), whose assignments (lines
\* 307-346) run here.
ConfigChanged(param, value) ==
    /\ Idle
    /\ CallOp("config", IF ConfigRearms(param) THEN "cp_wup" ELSE "cp_ret", "idle")
    /\ loc' = [loc EXCEPT !.param = param]
    /\ CASE param = INITIAL_METER_READING ->
              /\ cfg' = [cfg EXCEPT !.initial = value]
              /\ initial_meter_reading' = value
              /\ reading_valid' = FALSE
              /\ next_report_millis' = Add32(millis, U(RESEED_REPORT_MILLIS))
              /\ UNCHANGED <<meter_report_period, debounce_time, pulse_increment>>
         [] param = METER_REPORT_PERIOD ->
              /\ cfg' = [cfg EXCEPT !.period = value]
              /\ meter_report_period' = value
              /\ next_report_millis' = Add32(millis, Mul32(1000, value))
              /\ UNCHANGED <<initial_meter_reading, debounce_time, pulse_increment>>
              /\ UNCHANGED reading_valid
         [] param = DEBOUNCE_TIME ->
              /\ cfg' = [cfg EXCEPT !.debounce = value]
              /\ debounce_time' = value
              /\ UNCHANGED <<initial_meter_reading, meter_report_period, pulse_increment>>
              /\ UNCHANGED <<reading_valid, next_report_millis>>
         [] param = PULSE_INCREMENT ->
              /\ cfg' = [cfg EXCEPT !.increment = value]
              /\ pulse_increment' = value
              /\ UNCHANGED <<initial_meter_reading, meter_report_period, debounce_time>>
              /\ UNCHANGED <<reading_valid, next_report_millis>>
    /\ Effect("none")
    /\ used' = [used EXCEPT !.ev = @ + 1,
                             !.seeds = @ + (IF param = INITIAL_METER_READING THEN 1 ELSE 0)]
    /\ UNCHANGED <<millis, last_pulse_millis, next_state_update_millis>>
    /\ UNCHANGED <<reading, pulses, reading_delta, pulses_delta>>
    /\ UNCHANGED <<eeprom, attached, wup, last, pre>>

\* config_parameter_changed(), lines 313 and 324: set_wakeup_timer().
ConfigWakeup ==
    /\ Runs("cp_wup")
    /\ set_wakeup_timer
    /\ Goto("cp_ret")
    /\ UNCHANGED <<timeVars, confVars, ctrVars, eeprom, cfg, attached, loc, histVars>>

\* config_parameter_changed() returns.
ConfigReturn ==
    /\ Runs("cp_ret")
    /\ Leave(Zero32)
    /\ Return
    /\ Effect("none")
    /\ UNCHANGED <<timeVars, confVars, ctrVars, eeprom, cfg, attached, wup, loc, pre, used>>

\* The Z-Wave core calls a channel's getter or reset callback
\* (ZUNO_SETUP_CHANNELS, lines 549-568).
ZWaveCall(op, entry) ==
    /\ Idle
    /\ CallOp(op, entry, "idle")
    /\ Effect("none")
    /\ Spend
    /\ UNCHANGED <<timeVars, confVars, ctrVars, eeprom, cfg, attached, wup, loc, last, pre>>

\* loop(), line 728: DWORD now = millis().
LoopBegin ==
    /\ Idle
    /\ loc' = [loc EXCEPT !.now = millis, !.flush = FALSE, !.due = FALSE,
                          !.sent = 0, !.acc0 = used.acc]
    /\ pc' = <<"loop_su">>
    /\ Effect("none")
    /\ Spend
    /\ UNCHANGED <<timeVars, confVars, ctrVars, eeprom, cfg, attached, wup, cur, last, pre>>

\* loop(), lines 794-801: if the state update is due, get_reading().
LoopStateUpdate ==
    /\ Runs("loop_su")
    /\ IF after(next_state_update_millis, loc.now)
       THEN CallOp("get_reading", "gr_begin", "loop_su_gp")
       ELSE Goto("loop_rep") /\ UNCHANGED cur
    /\ loc' = [loc EXCEPT !.flush = after(next_state_update_millis, loc.now)]
    /\ Effect("none")
    /\ UNCHANGED <<timeVars, confVars, ctrVars, eeprom, cfg, attached, wup, last, pre, used>>

\* A state update that leaves get_pulses() out.
LoopStateUpdatePulses_skipped ==
    /\ Runs("loop_su_gp")
    /\ Goto("loop_su_next")
    /\ Effect("none")
    /\ UNCHANGED <<timeVars, confVars, ctrVars, eeprom, cfg, attached, wup, loc, histVars>>

\* loop(), line 802: get_pulses().
LoopStateUpdatePulses ==
    /\ Runs("loop_su_gp")
    /\ CallOp("get_pulses", "gp_begin", "loop_su_next")
    /\ Effect("none")
    /\ UNCHANGED <<timeVars, confVars, ctrVars, eeprom, cfg, attached, wup, loc, last, pre, used>>

\* loop(), line 804: next_state_update(STATE_UPDATE_PERIOD).
LoopStateUpdateNext ==
    /\ Runs("loop_su_next")
    /\ next_state_update(U(STATE_UPDATE_PERIOD))
    /\ Goto("loop_rep")
    /\ Effect("none")
    /\ UNCHANGED <<millis, last_pulse_millis, next_report_millis>>
    /\ UNCHANGED <<confVars, ctrVars, eeprom, cfg, attached, wup, loc, histVars>>

\* A loop() that sends its reports without asking for the network.
Reports_always(in_network) ==
    TRUE

\* loop(), line 812: if (zunoInNetwork()).
Reports(in_network) ==
    in_network

\* loop(), lines 809-823: if the report is due and the device is in a
\* network, get_reading(); if it is due and not in a network, only reschedule.
LoopReport(in_network) ==
    /\ Runs("loop_rep")
    /\ IF after(next_report_millis, loc.now)
       THEN /\ loc' = [loc EXCEPT !.in_network = in_network, !.due = TRUE]
            /\ IF Reports(in_network)
               THEN CallOp("get_reading", "gr_begin", "loop_rep_gp")
               ELSE Goto("loop_rep_next") /\ UNCHANGED cur
       ELSE /\ in_network = FALSE
            /\ Goto("loop_wup")
            /\ UNCHANGED <<loc, cur>>
    /\ Effect("none")
    /\ UNCHANGED <<timeVars, confVars, ctrVars, eeprom, cfg, attached, wup, last, pre, used>>

\* loop(), line 823: get_pulses().
LoopReportPulses ==
    /\ Runs("loop_rep_gp")
    /\ CallOp("get_pulses", "gp_begin", "loop_send1")
    /\ Effect("none")
    /\ UNCHANGED <<timeVars, confVars, ctrVars, eeprom, cfg, attached, wup, loc, last, pre, used>>

\* loop(), line 825: zunoSendReport(1).
LoopSend1 ==
    /\ Runs("loop_send1")
    /\ Effect("report1")
    /\ Goto("loop_send2")
    /\ loc' = [loc EXCEPT !.sent = @ + 1]
    /\ UNCHANGED <<timeVars, confVars, ctrVars, eeprom, cfg, attached, wup, histVars>>

\* loop(), line 826: zunoSendReport(2).
LoopSend2 ==
    /\ Runs("loop_send2")
    /\ Effect("report2")
    /\ Goto("loop_rep_next")
    /\ loc' = [loc EXCEPT !.sent = @ + 1]
    /\ UNCHANGED <<timeVars, confVars, ctrVars, eeprom, cfg, attached, wup, histVars>>

\* loop(), line 835: next_report_seconds(meter_report_period).
LoopReportNext ==
    /\ Runs("loop_rep_next")
    /\ next_report_seconds(meter_report_period)
    /\ Goto("loop_wup")
    /\ Effect("none")
    /\ UNCHANGED <<millis, last_pulse_millis, next_state_update_millis>>
    /\ UNCHANGED <<confVars, ctrVars, eeprom, cfg, attached, wup, loc, histVars>>

\* loop(), lines 840-849: set_wakeup_timer(), then sleep until the next
\* activation.
LoopWakeup ==
    /\ Runs("loop_wup")
    /\ set_wakeup_timer
    /\ pc' = <<"idle">>
    /\ loc' = [loc EXCEPT !.flush = FALSE, !.due = FALSE, !.sent = 0, !.acc0 = 0]
    /\ UNCHANGED <<timeVars, confVars, ctrVars, eeprom, cfg, attached, histVars>>

(***************************************************************************)
(* Specification of the sketch                                             *)
(***************************************************************************)

\* One statement of setup() or init_reading().
SetupStep ==
    \/ SetupLoad
    \/ SetupAttach
    \/ SetupReport
    \/ InitBegin
    \/ InitPutReading
    \/ InitPutPulses
    \/ InitPutCopy
    \/ InitLoad
    \/ InitEnd
    \/ InitReturn

\* One statement of a channel getter.
GetterStep ==
    \/ GetReadingBegin
    \/ GetReadingTest
    \/ GetReadingAdd
    \/ GetReadingZero
    \/ GetReadingWrap
    \/ GetReadingPut
    \/ GetReadingReturn
    \/ GetPulsesBegin
    \/ GetPulsesTest
    \/ GetPulsesAdd
    \/ GetPulsesZero
    \/ GetPulsesPut
    \/ GetPulsesReturn

\* One statement of a reset callback.
ResetStep ==
    \/ ResetReadingBase
    \/ ResetReadingDelta
    \/ ResetReadingPut
    \/ ResetReadingReturn
    \/ ResetPulsesBase
    \/ ResetPulsesDelta
    \/ ResetPulsesPut
    \/ ResetPulsesReturn

\* One statement of loop() or of config_parameter_changed() after its call.
LoopStep ==
    \/ LoopStateUpdate
    \/ LoopStateUpdatePulses
    \/ LoopStateUpdateNext
    \/ \E in_network \in BOOLEAN : LoopReport(in_network)
    \/ LoopReportPulses
    \/ LoopSend1
    \/ LoopSend2
    \/ LoopReportNext
    \/ LoopWakeup
    \/ ConfigWakeup
    \/ ConfigReturn

\* The main context continues the activation it is in.
MainStep ==
    \/ SetupStep
    \/ GetterStep
    \/ ResetStep
    \/ LoopStep

\* The events left to the environment.
Budget ==
    used.ev < MaxEvents

\* The Z-Wave core runs loop().
CoreLoop ==
    Budget /\ LoopBegin

\* The Z-Wave core reads channel 1 (get_reading), line 557.
CoreGetReading ==
    Budget /\ ClockObserved /\ ZWaveCall("get_reading", "gr_begin")

\* The Z-Wave core reads channel 2 (get_pulses), line 566.
CoreGetPulses ==
    Budget /\ ClockObserved /\ ZWaveCall("get_pulses", "gp_begin")

\* The Z-Wave core resets channel 1 (reset_reading), line 558.
CoreResetReading ==
    Budget /\ ClockObserved /\ ZWaveCall("reset_reading", "rr_base")

\* The Z-Wave core resets channel 2 (reset_pulses), line 567.
CoreResetPulses ==
    Budget /\ ClockObserved /\ ZWaveCall("reset_pulses", "rp_base")

\* The controller sets parameter 64, the initial meter reading.
CoreConfigInitial ==
    Budget /\ \E v \in InitialSet : ConfigChanged(INITIAL_METER_READING, v)

\* The controller sets parameter 65, the report period.
CoreConfigPeriod ==
    Budget /\ \E v \in PeriodSet : ConfigChanged(METER_REPORT_PERIOD, v)

\* The controller sets parameter 66, the debounce time.
CoreConfigDebounce ==
    Budget /\ ClockObserved /\ \E v \in DebounceSet : ConfigChanged(DEBOUNCE_TIME, v)

\* The controller sets parameter 67, the pulse increment.
CoreConfigIncrement ==
    Budget /\ ClockObserved /\ \E v \in IncrementSet : ConfigChanged(PULSE_INCREMENT, v)

\* The Z-Wave core starts a new activation of the main context.
Activate ==
    \/ CoreLoop
    \/ CoreGetReading
    \/ CoreGetPulses
    \/ CoreResetReading
    \/ CoreResetPulses
    \/ CoreConfigInitial
    \/ CoreConfigPeriod
    \/ CoreConfigDebounce
    \/ CoreConfigIncrement

\* The meter's reed switch closes: a falling edge on the pulse pin.
PinFalls ==
    Budget /\ Interrupt

\* Time passes.
ClockAdvances ==
    Budget /\ \E d \in TickSet : Tick(d)

\* The supply fails and returns.
PowerFails ==
    Budget /\ ClockObserved /\ PowerLoss

Next ==
    \/ MainStep
    \/ Activate
    \/ PinFalls
    \/ ClockAdvances
    \/ PowerFails

Spec ==
    Init /\ [][Next]_vars

(***************************************************************************)
(* Specification of the timing utilities applied alone                     *)
(***************************************************************************)

\* Timestamps a utility is applied to: around 0, around 2^31, before the wrap.
ThenSet ==
    {Zero32, One32, U(5000), <<32767, 65535>>, HALF, <<32768, 1>>, <<65535, 60536>>, ERASED}

\* True intervals between the two timestamps: below, at and above 2^31.
ElapsedSet ==
    {Zero32, One32, U(4999), U(5000), <<1, 0>>, <<1, 1>>, <<32767, 65535>>,
     HALF, <<32768, 1>>, <<32768, 5000>>, ERASED}

\* The sketch before setup(); the inputs of the utility are chosen.
InitTiming ==
    /\ RamAtReset
    /\ eeprom = EepromRecord(ERASED, ERASED, ERASED)
    /\ cfg = Cfg(U(0), U(60), U(5000), U(1))
    /\ io = "none"
    /\ cur = NoCall
    /\ last = NoCall
    /\ pre = NoLoss
    /\ used = NothingUsed
    /\ probe \in {[NoProbe EXCEPT !.then = a, !.d = d, !.now = Add32(a, d)] :
                    a \in ThenSet, d \in ElapsedSet}

\* Everything but the probe.
sketchVars ==
    <<timeVars, confVars, ctrVars, eeprom, cfg, attached, wup, pc, loc, io, histVars>>

\* since(then, now) is applied.
ApplySince ==
    /\ probe.fn = "none"
    /\ probe' = [probe EXCEPT !.fn = "since", !.out = since(probe.then, probe.now)]
    /\ UNCHANGED sketchVars

\* after(then, now) is applied.
ApplyAfter ==
    /\ probe.fn = "none"
    /\ probe' = [probe EXCEPT !.fn = "after", !.due = after(probe.then, probe.now)]
    /\ UNCHANGED sketchVars

NextTiming ==
    \/ ApplySince
    \/ ApplyAfter

SpecTiming ==
    InitTiming /\ [][NextTiming]_vars

(***************************************************************************)
(* Specification of a long accumulation: pulses between activations only   *)
(***************************************************************************)

\* Pulses accepted per behaviour of the accumulation.
MaxOdoPulses == 201

\* Calls of the channel getters per behaviour of the accumulation.
MaxOdoReads == 1

\* A new device: erased EEPROM, no debounce window, the largest increment.
InitOdo ==
    /\ RamAtReset
    /\ eeprom = EepromRecord(ERASED, ERASED, ERASED)
    /\ cfg \in {Cfg(i, U(60), U(0), U(1000000)) : i \in InitialSet}
    /\ io = "none"
    /\ cur = NoCall
    /\ last = NoCall
    /\ pre = NoLoss
    /\ used = NothingUsed
    /\ probe = NoProbe

\* setup() runs; then pulses arrive while the main context is idle, and the
\* Z-Wave core calls the getters.
NextOdo ==
    \/ SetupStep
    \/ GetterStep
    \/ used.acc < MaxOdoPulses /\ Idle /\ Interrupt
    \/ used.ev - used.acc < MaxOdoReads /\ ZWaveCall("get_reading", "gr_begin")
    \/ used.ev - used.acc < MaxOdoReads /\ ZWaveCall("get_pulses", "gp_begin")

SpecOdo ==
    InitOdo /\ [][NextOdo]_vars

(***************************************************************************)
(* Specification of a pulse train: pulses at given values of millis()      *)
(***************************************************************************)

\* Calls of the channel getters per behaviour of a pulse train.
MaxTrainReads == 2

\* The pulse trains: the values of millis() at which the pin falls.
TrainSet ==
    {<<0, 100, 6000, 6050>>, <<1, 100, 6000, 6050>>, <<0, 4000, 6000, 11000>>,
     <<0, 5000, 9999, 10000>>}

\* A new device with the default configuration (debounce window 5000 ms,
\* increment 1); the pulse train is chosen.
InitTrain ==
    /\ RamAtReset
    /\ eeprom = EepromRecord(ERASED, ERASED, ERASED)
    /\ cfg = Cfg(U(0), U(60), U(5000), U(1))
    /\ io = "none"
    /\ cur = NoCall
    /\ last = NoCall
    /\ pre = NoLoss
    /\ used = NothingUsed
    /\ probe \in {[NoProbe EXCEPT !.fn = "train", !.train = t] : t \in TrainSet}

\* Pulses of the train delivered to interrupt() so far.
TrainPulses ==
    used.acc + used.rej

\* Advances of the clock so far: one for each pulse time reached after 0.
TrainTicks ==
    Cardinality({i \in 1..Len(probe.train) :
                    probe.train[i] > 0 /\ probe.train[i] <= Val(millis)})

\* Calls of the getters so far.
TrainReads ==
    used.ev - TrainPulses - TrainTicks

\* The pin falls at the next time of the train.
TrainEdge ==
    /\ TrainPulses < Len(probe.train)
    /\ millis = U(probe.train[TrainPulses + 1])
    /\ Interrupt

\* The clock advances to the next time of the train.
TrainWait ==
    /\ TrainPulses < Len(probe.train)
    /\ probe.train[TrainPulses + 1] > Val(millis)
    /\ Tick(U(probe.train[TrainPulses + 1] - Val(millis)))

\* The Z-Wave core reads a channel between two statements of no activation.
TrainRead ==
    /\ TrainReads < MaxTrainReads
    /\ ClockObserved
    /\ \/ ZWaveCall("get_reading", "gr_begin")
       \/ ZWaveCall("get_pulses", "gp_begin")

NextTrain ==
    \/ SetupStep
    \/ GetterStep
    \/ TrainEdge
    \/ TrainWait
    \/ TrainRead

SpecTrain ==
    InitTrain /\ [][NextTrain]_vars

(***************************************************************************)
(* Specification of the reading-only variant: setup(), interrupt(), clock  *)
(***************************************************************************)

\* Events per behaviour of the variant.
MaxVariantEvents == 4

\* uint32_t since() of the variant, with then = moment and now = millis().
since_variant(then, now) ==
    LET diff == Sub32(now, then)
    IN  IF Gt32(diff, <<1, 0>>) THEN Sub32(diff, <<1, 0>>) ELSE diff

\* setup() of the variant: init_reading() (re-seed or load of the reading,
\* reading_delta = 0, reading_valid = true, debounce_time loaded from the
\* configuration), then attachInterrupt().
VariantSetup ==
    /\ At("boot")
    /\ eeprom' = IF cfg.initial # eeprom.init_copy
                 THEN [eeprom EXCEPT !.reading = cfg.initial, !.init_copy = cfg.initial]
                 ELSE eeprom
    /\ reading' = eeprom'.reading
    /\ reading_delta' = Zero32
    /\ reading_valid' = TRUE
    /\ debounce_time' = cfg.debounce
    /\ attached' = TRUE
    /\ pc' = <<"idle">>
    /\ Effect("none")
    /\ UNCHANGED <<timeVars, initial_meter_reading, meter_report_period, pulse_increment>>
    /\ UNCHANGED <<pulses, pulses_delta, cfg, wup, loc, histVars>>

\* interrupt() of the variant: if (since() < debounce_time) return;
\* remember(); inc_reading(DWORD(1)).
VariantInterrupt ==
    /\ attached
    /\ used.ev < MaxVariantEvents
    /\ IF Lt32(since_variant(last_pulse_millis, millis), debounce_time)
       THEN /\ used' = [used EXCEPT !.ev = @ + 1, !.rej = @ + 1]
            /\ Effect("pulse_rejected")
            /\ UNCHANGED <<last_pulse_millis, reading_delta>>
       ELSE /\ last_pulse_millis' = millis
            /\ reading_delta' = Add32(reading_delta, One32)
            /\ Effect("pulse_accepted")
            /\ used' = [used EXCEPT !.ev = @ + 1, !.acc = @ + 1,
                                     !.age = NoTime, !.gap = used.age]
    /\ UNCHANGED <<millis, next_report_millis, next_state_update_millis>>
    /\ UNCHANGED <<confVars, reading, pulses, pulses_delta, reading_valid>>
    /\ UNCHANGED <<eeprom, cfg, attached, wup, pc, loc, cur, last, pre>>

\* millis() advances between two pulses of the variant.
VariantTick ==
    /\ attached
    /\ used.ev < MaxVariantEvents
    /\ \E d \in {U(1), U(4999), U(5000), <<1, 0>>, <<1, 1>>, <<32767, 65535>>} : Tick(d)

NextVariant ==
    \/ VariantSetup
    \/ VariantInterrupt
    \/ VariantTick

SpecVariant ==
    Init /\ [][NextVariant]_vars

(***************************************************************************)
(* Claims                                                                  *)
(***************************************************************************)

\* The reading r equals the total t, or t after one turn of the odometer.
SameReading(r, t) ==
    \/ r = t
    \/ r = Sub32(t, U(READING_MODULUS))

\* The boot after a power loss finds the seed marker equal to the configured
\* initial reading (the configuration is unchanged and no re-seed happens).
MarkerMatched ==
    loc.init_value = loc.init_copy

\* C1: from a freshly seeded meter (initial reading 0), after N accepted
\* pulses of increment k, with getter calls only between the pulses,
\* get_reading returns (N * k) mod 100000000 and get_pulses returns N.
C1_Accumulation ==
    cfg.initial = Zero32 =>
        /\ At("gr_ret") => Val(reading) = (used.acc * Val(pulse_increment)) % READING_MODULUS
        /\ At("gp_ret") => Val(pulses) = used.acc

\* C2: when accepted pulses preempt get_reading or get_pulses between two of
\* their statements, at the return of the call base + delta of each counter
\* is its value before the call plus the increments of those pulses.
C2_NoLostPulse ==
    (At("gr_ret") \/ At("gp_ret")) /\ cur.valid0 =>
        /\ SameReading(Add32(reading, reading_delta), Add32(cur.r0, cur.accr))
        /\ Add32(pulses, pulses_delta) = Add32(cur.p0, cur.accp)

\* C3: after an accepted pulse, a pulse less than debounce_time later is
\* rejected (an accepted pulse came at least debounce_time after the one
\* before), and a pulse debounce_time or more later (and less than 2^32 ms
\* later) is accepted.
C3_Debounce ==
    /\ io = "pulse_accepted" /\ used.acc > 1 => ~Shorter(used.gap, debounce_time)
    /\ io = "pulse_rejected" /\ used.acc > 0 /\ used.age[1] = 0 =>
           Shorter(used.age, debounce_time)

\* C4: the first pulse after boot is accepted whenever it arrives: a pulse is
\* rejected only after some pulse was accepted in the same power cycle.
C4_FirstPulse ==
    io = "pulse_rejected" => used.acc > 0

\* C5: since(a, a + d) = d for every timestamp a and every interval d below
\* 2^31, also across the wrap of the clock and for d = 0.
C5_SinceExact ==
    probe.fn = "since" /\ Small(probe.d) => probe.out = probe.d

\* C5 witness: an interval of 2^31 - 1 ms measured across the wrap.
C5_Witness ==
    /\ probe.fn = "since"
    /\ probe.d = <<32767, 65535>>
    /\ Lt32(probe.now, probe.then)
    /\ probe.out = probe.d

\* C6: whenever get_reading folds a delta into a base within 0..99999999, the
\* base it writes to the EEPROM is within 0..99999999 again.
C6_OdometerRange ==
    At("gr_put") /\ ~Gt32(cur.b0, U(READING_MAX)) => ~Gt32(reading, U(READING_MAX))

\* C7: a getter called right after a call of the same getter, with no pulse
\* accepted since that call began, returns the same value and writes nothing;
\* and the getters' own EEPROM write happens only in a call whose delta was
\* non-zero (at the call, or by a pulse accepted during it).
C7_Idempotent ==
    /\ At("gr_ret") /\ cur.op = "get_reading" /\ last.op = "get_reading" /\ ~last.pulsed
           => reading = last.val /\ ~cur.wrote
    /\ At("gp_ret") /\ cur.op = "get_pulses" /\ last.op = "get_pulses" /\ ~last.pulsed
           => pulses = last.val /\ ~cur.wrote
    /\ At("gr_put") => cur.rd0 # Zero32 \/ cur.pulsed
    /\ At("gp_put") => cur.pd0 # Zero32 \/ cur.pulsed

\* C7 witness: the second of two get_reading calls returns, the first one
\* having folded a delta and written the EEPROM.
C7_Witness ==
    /\ At("gr_ret")
    /\ cur.op = "get_reading"
    /\ last.op = "get_reading"
    /\ ~last.pulsed
    /\ last.wrote
    /\ last.rd0 # Zero32

\* C8: when init_reading finds the configured initial reading different from
\* the stored seed marker, it ends with reading = the configured value,
\* pulses = 0 and the EEPROM record (configured value, 0, configured value).
C8_Reseed ==
    At("ir_ret") /\ loc.init_value # loc.init_copy =>
        /\ loc.init_value = initial_meter_reading
        /\ reading = loc.init_value
        /\ pulses = Zero32
        /\ eeprom = EepromRecord(loc.init_value, Zero32, loc.init_value)

\* C8 witness: a re-seed inside a getter call, over an earlier seed and with
\* pulses accumulated before it.
C8_Witness ==
    /\ At("ir_ret")
    /\ loc.init_value # loc.init_copy
    /\ loc.init_copy # ERASED
    /\ cur.op = "get_reading"
    /\ cur.r0 # loc.init_value
    /\ cur.pd0 # Zero32

\* C9 as stated (its first half): after a power loss at any point with the
\* counters valid, and a reboot with unchanged configuration, the restored
\* value of each counter is not greater than base + delta before the loss.
C9_NeverGreater ==
    At("setup_attach") /\ pre.lost /\ pre.valid /\ MarkerMatched =>
        /\ Val(reading) <= Val(pre.reading) + Val(pre.reading_delta)
        /\ Val(pulses) <= Val(pre.pulses) + Val(pre.pulses_delta)

\* C9 amended: after a power loss at any point and a reboot with unchanged
\* configuration, each counter restarts from the value last written to the
\* EEPROM; when the loss strikes while the main context is idle and the
\* counters are valid, that value is the base, so that exactly the delta not
\* yet flushed is lost.
C9_Restore ==
    At("setup_attach") /\ pre.lost /\ MarkerMatched =>
        /\ reading = pre.stored.reading
        /\ pulses = pre.stored.pulses
        /\ pre.quiet => reading = pre.reading /\ pulses = pre.pulses

\* C9 witness: power was lost while idle with increments of both counters
\* not yet flushed, and the boot has restored the bases.
C9_Witness ==
    /\ At("setup_attach")
    /\ pre.lost
    /\ pre.quiet
    /\ MarkerMatched
    /\ pre.reading_delta # Zero32
    /\ pre.pulses_delta # Zero32
    /\ pre.reading # Zero32

\* C10: reset_reading zeroes the reading so that the get_reading that follows
\* it with no pulse accepted in between returns 0; the same for reset_pulses
\* and get_pulses.
C10_ResetThenZero ==
    /\ At("gr_ret") /\ cur.op = "get_reading" /\ last.op = "reset_reading" /\ ~last.pulsed
           => reading = Zero32
    /\ At("gp_ret") /\ cur.op = "get_pulses" /\ last.op = "reset_pulses" /\ ~last.pulsed
           => pulses = Zero32

\* The main context runs a callback the Z-Wave core has called: a channel
\* getter, a reset callback or the configuration handler.
InCallback ==
    Len(pc) > 1 /\ pc[Len(pc)] = "idle"

\* The last step wrote an EEPROM cell.
EepromWritten ==
    io \in {"put_reading", "put_pulses", "put_init_copy"}

\* C11: no EEPROM cell is written while the main context runs a channel
\* getter, a reset callback or the configuration handler called by the
\* Z-Wave core: the writes happen in setup() and loop() only.
C11_WritesInLoopOnly ==
    EepromWritten => ~InCallback

\* C12: a step of interrupt(), accepting or rejecting the pulse, leaves
\* everything but last_pulse_millis, pulses_delta and reading_delta unchanged:
\* the bases, reading_valid, both deadlines, the configuration values, the
\* EEPROM record, the wake timer and the position of the main context.
C12_InterruptFrame ==
    [][io' \in {"pulse_accepted", "pulse_rejected"} =>
           /\ UNCHANGED <<reading, pulses, reading_valid>>
           /\ UNCHANGED <<next_report_millis, next_state_update_millis, millis>>
           /\ UNCHANGED <<confVars, eeprom, cfg, wup, attached, pc, loc>>]_vars

\* C12 witness: a pulse is rejected while a call of the main context is in
\* progress, after another pulse was accepted.
C12_Witness ==
    /\ io = "pulse_rejected"
    /\ used.acc > 0
    /\ cur.op # "none"
    /\ reading_delta # Zero32

\* The deadline is due at the time millis: after(deadline, millis), as loop()
\* tests it.
Due(deadline) ==
    after(deadline, millis)

\* Milliseconds from the time millis to a deadline that is not due.
Remaining(deadline) ==
    Val(Sub32(deadline, millis))

\* Milliseconds from the time millis to the sooner of the two deadlines.
SoonerRemaining ==
    IF Remaining(next_state_update_millis) < Remaining(next_report_millis)
    THEN Remaining(next_state_update_millis)
    ELSE Remaining(next_report_millis)

\* C13: whenever set_wakeup_timer has armed the wake timer, the duration is
\* at least 1 second, and when neither deadline is due it is
\* floor(r / 1000) + 1 seconds, r being the milliseconds left to the sooner
\* deadline.
C13_WakeupSlack ==
    io = "arm" =>
        /\ ~Lt32(wup, One32)
        /\ ~Due(next_report_millis) /\ ~Due(next_state_update_millis) =>
               /\ Small(wup)
               /\ Val(wup) = (SoonerRemaining \div 1000) + 1

\* C13 witness: the timer is armed for 6 seconds with both deadlines ahead,
\* the sooner one 5000 ms away.
C13_Witness ==
    /\ io = "arm"
    /\ ~Due(next_report_millis)
    /\ ~Due(next_state_update_millis)
    /\ SoonerRemaining = 5000
    /\ wup = U(6)

\* C14: when set_wakeup_timer arms the wake timer while the report deadline
\* or the state-update deadline is due, it arms it for 1 second.
C14_DueArmsMinimum ==
    io = "arm" /\ (Due(next_report_millis) \/ Due(next_state_update_millis)) =>
        wup = One32

\* C15: when loop() reschedules the report, the new report deadline is the
\* timestamp now of the activation (line 728) plus 1000 * meter_report_period.
C15_NoDrift ==
    [][Head(pc) = "loop_rep_next" /\ Head(pc') = "loop_wup" =>
           next_report_millis' = Add32(loc.now, Mul32(1000, meter_report_period))]_vars

\* C16 as stated: the comparison of the configured initial reading with the
\* stored seed marker is made at most once in a power cycle.
C16_OncePerCycle ==
    used.chk <= 1

\* C16 amended: the comparison is made once by setup() at every boot, before
\* any access to a counter, and once more by the first get_reading or
\* get_pulses that follows a change of the initial reading; it is made only
\* while reading_valid is false, never by a reset or by a getter that finds
\* reading_valid true, so a power cycle sees at most one comparison more
\* than it sees changes of the initial reading.
C16_CheckWhenInvalid ==
    /\ used.chk <= 1 + used.seeds
    /\ attached => used.chk >= 1
    /\ At("ir_begin") => /\ ~reading_valid
                         /\ cur.op \in {"none", "get_reading", "get_pulses"}
                         /\ cur.op = "none" => ~attached

\* C16 witness: the comparison is made for the second time in a power cycle,
\* by a getter, after the initial reading was changed and a reset was
\* called.
C16_Witness ==
    /\ At("ir_put_reading")
    /\ used.chk = 2
    /\ used.seeds = 1
    /\ cur.op = "get_pulses"
    /\ last.op = "reset_reading"

\* The step in which config_parameter_changed is entered and makes its
\* assignments.
ConfigDelivered ==
    Idle /\ Len(pc') = 2 /\ cur'.op = "config"

\* A step of the main context inside config_parameter_changed (not a pulse,
\* not the clock, not a power loss).
ConfigContinues ==
    cur.op = "config" /\ io' \in {"none", "arm"} /\ pc' # <<"boot">>

\* What a change of the debounce time or of the increment leaves alone.
ConfigFrame ==
    /\ UNCHANGED <<next_report_millis, next_state_update_millis, last_pulse_millis>>
    /\ UNCHANGED <<reading, pulses, reading_delta, pulses_delta, reading_valid>>
    /\ UNCHANGED <<eeprom, wup>>

\* C17: config_parameter_changed stores the new value in the in-memory
\* setting of the changed parameter at once and leaves the other three
\* settings alone; for the report period it sets the report deadline to
\* millis() + 1000 * value and then arms the wake timer from the deadlines;
\* for the debounce time and the increment no step of the handler changes a
\* deadline, a counter, a delta, reading_valid, the EEPROM record or the
\* wake timer.
C17_ConfigChange ==
    [][/\ ConfigDelivered /\ loc'.param = INITIAL_METER_READING =>
              /\ initial_meter_reading' = cfg'.initial
              /\ UNCHANGED <<meter_report_period, debounce_time, pulse_increment>>
       /\ ConfigDelivered /\ loc'.param = METER_REPORT_PERIOD =>
              /\ meter_report_period' = cfg'.period
              /\ UNCHANGED <<initial_meter_reading, debounce_time, pulse_increment>>
              /\ next_report_millis' = Add32(millis, Mul32(1000, cfg'.period))
              /\ Head(pc') = "cp_wup"
              /\ UNCHANGED <<reading, pulses, reading_delta, pulses_delta>>
              /\ UNCHANGED <<reading_valid, eeprom, next_state_update_millis>>
       /\ ConfigDelivered /\ loc'.param = DEBOUNCE_TIME =>
              /\ debounce_time' = cfg'.debounce
              /\ UNCHANGED <<initial_meter_reading, meter_report_period, pulse_increment>>
              /\ ConfigFrame
       /\ ConfigDelivered /\ loc'.param = PULSE_INCREMENT =>
              /\ pulse_increment' = cfg'.increment
              /\ UNCHANGED <<initial_meter_reading, meter_report_period, debounce_time>>
              /\ ConfigFrame
       /\ ConfigContinues =>
              /\ UNCHANGED <<confVars, cfg>>
              /\ loc.param \in {DEBOUNCE_TIME, PULSE_INCREMENT} => ConfigFrame
              /\ Head(pc) = "cp_wup" =>
                     /\ io' = "arm"
                     /\ wup' = WakeupSecs(millis)
                     /\ Head(pc') = "cp_ret"
                     /\ UNCHANGED <<timeVars, ctrVars, eeprom>>]_vars

\* C17 witness: the report period was changed from 60 to 1 second at
\* millis() = 4999, the report deadline is 5999 and the wake timer has been
\* armed by the handler; the debounce time, changed before, is still 0.
C17_Witness ==
    /\ cur.op = "config"
    /\ loc.param = METER_REPORT_PERIOD
    /\ io = "arm"
    /\ meter_report_period = U(1)
    /\ next_report_millis = U(5999)
    /\ last.op = "config"
    /\ debounce_time = U(0)
    /\ cfg.debounce = U(0)
    /\ pulse_increment = U(1)

\* The main context leaves the test of the report deadline (line 809).
ReportTested ==
    Head(pc) = "loop_rep" /\ pc' # pc /\ pc' # <<"boot">>

\* The main context reaches set_wakeup_timer() at the end of loop().
ReportPartDone ==
    Head(pc') = "loop_wup" /\ Head(pc) # "loop_wup"

\* No pulse has been accepted since loop() read the clock at line 728.
NoPulseInActivation ==
    used.acc = loc.acc0

\* C18: an activation sends reports only when the report deadline is due by
\* the clock value read at line 728 and the device is in a network, and
\* then it sends both, channel 1 then channel 2, after get_reading() and
\* get_pulses() (which leave both deltas zero unless a pulse arrives
\* meanwhile); an activation whose deadline is due sets the deadline to
\* millis() + 1000 * meter_report_period whether or not it reported; an
\* activation whose deadline is not due sends nothing and leaves the
\* deadline alone.
C18_Reports ==
    /\ [](/\ io \in {"report1", "report2"} =>
                 loc.due /\ loc.in_network /\ last.op = "get_pulses"
          /\ loc.sent > 0 => loc.due /\ loc.in_network
          /\ At("loop_rep_gp") =>
                 loc.due /\ loc.in_network /\ last.op = "get_reading"
          /\ At("loop_send1") =>
                 /\ loc.sent = 0
                 /\ last.op = "get_pulses"
                 /\ (NoPulseInActivation =>
                        reading_delta = Zero32 /\ pulses_delta = Zero32)
          /\ At("loop_send2") => loc.sent = 1
          /\ At("loop_wup") => loc.sent = (IF loc.due /\ loc.in_network THEN 2 ELSE 0))
    /\ [][/\ ReportTested => loc'.due = after(next_report_millis, loc.now)
          /\ ReportPartDone =>
                 IF loc'.due
                 THEN /\ Head(pc) = "loop_rep_next"
                      /\ next_report_millis' =
                             Add32(millis, Mul32(1000, meter_report_period))
                 ELSE /\ Head(pc) = "loop_rep"
                      /\ UNCHANGED next_report_millis]_vars

\* C18 witness: both reports have just been sent in an activation whose
\* get_pulses() stored a pulse counted since the previous flush.
C18_Witness ==
    /\ io = "report2"
    /\ loc.sent = 2
    /\ loc.in_network
    /\ last.op = "get_pulses"
    /\ last.wrote

\* The main context leaves the test of the state-update deadline (line 794).
FlushTested ==
    Head(pc) = "loop_su" /\ pc' # pc /\ pc' # <<"boot">>

\* The main context reaches the report part of loop() (line 809).
FlushPartDone ==
    Head(pc') = "loop_rep" /\ Head(pc) # "loop_rep"

\* The statements of loop() after the state update, outside the getters
\* called by the report part.
AfterFlush ==
    Head(pc) \in {"loop_rep", "loop_rep_gp", "loop_send1", "loop_send2",
                  "loop_rep_next", "loop_wup"}

\* C19: in an activation whose state-update deadline is due by the clock
\* value read at line 728, and in which no pulse has been accepted, after
\* get_reading() the reading delta is zero and the EEPROM reading cell
\* equals the base reading, after get_pulses() the same holds of the pulse
\* count as well, and the deadline is then set to millis() + 15000; an
\* activation whose deadline is not due leaves the deadline alone.
C19_Flush ==
    /\ [](loc.flush /\ NoPulseInActivation =>
             /\ At("loop_su_gp") \/ At("loop_su_next") \/ AfterFlush =>
                    reading_delta = Zero32 /\ eeprom.reading = reading
             /\ At("loop_su_next") \/ AfterFlush =>
                    pulses_delta = Zero32 /\ eeprom.pulses = pulses)
    /\ [][/\ FlushTested => loc'.flush = after(next_state_update_millis, loc.now)
          /\ FlushPartDone =>
                 IF loc'.flush
                 THEN /\ Head(pc) = "loop_su_next"
                      /\ last.op = "get_pulses"
                      /\ next_state_update_millis' =
                             Add32(millis, U(1000 * STATE_UPDATE_PERIOD))
                 ELSE /\ Head(pc) = "loop_su"
                      /\ UNCHANGED next_state_update_millis]_vars

\* C19 witness: a due state update has flushed a reading delta and a pulse
\* delta counted before the activation, and has set the next deadline
\* 15 seconds after the clock.
C19_Witness ==
    /\ At("loop_rep")
    /\ loc.flush
    /\ NoPulseInActivation
    /\ used.acc > 0
    /\ last.op = "get_pulses"
    /\ last.wrote
    /\ pulses # Zero32
    /\ eeprom.pulses = pulses
    /\ eeprom.reading = reading
    /\ next_state_update_millis = Add32(millis, U(15000))

\* One step of interrupt(), whatever it decides.
PulseDelivered ==
    TrainPulses' = TrainPulses + 1

\* The pulses accepted so far are the given pulses of the train, and the
\* latest of them is remembered as the start of the debounce window.
TrainAccepted(indices) ==
    /\ used.acc = Cardinality({i \in indices : i <= TrainPulses})
    /\ \A i \in indices :
           /\ i <= TrainPulses
           /\ \A j \in indices : j <= TrainPulses => j <= i
           => last_pulse_millis = U(probe.train[i])

\* C20: a pulse that interrupt() rejects leaves last_pulse_millis and both
\* deltas unchanged; a pulse it accepts sets last_pulse_millis to millis(),
\* adds 1 to pulses_delta and pulse_increment to reading_delta; after an
\* accepted pulse last_pulse_millis is the time of the latest accepted
\* pulse, however many were rejected since.  With window 5000 ms and
\* increment 1, of pulses at millis() = 0, 100, 6000 and 6050 exactly the
\* first and the third are accepted, and both deltas are 2 as long as no
\* getter has run.
C20_RejectKeepsWindow ==
    /\ [][PulseDelivered =>
              IF InDebounceWindow(millis)
              THEN /\ io' = "pulse_rejected"
                   /\ used'.acc = used.acc
                   /\ UNCHANGED <<last_pulse_millis, reading_delta, pulses_delta>>
              ELSE /\ io' = "pulse_accepted"
                   /\ used'.acc = used.acc + 1
                   /\ last_pulse_millis' = millis
                   /\ pulses_delta' = Add32(pulses_delta, One32)
                   /\ reading_delta' = Add32(reading_delta, pulse_increment)]_vars
    /\ [](used.acc > 0 =>
             /\ used.age[1] = 0
             /\ Sub32(millis, last_pulse_millis) = used.age[2])
    /\ [](probe.train = <<0, 100, 6000, 6050>> =>
             /\ TrainAccepted({1, 3})
             /\ TrainPulses = 4 /\ TrainReads = 0 =>
                    /\ used.acc = 2
                    /\ used.rej = 2
                    /\ pulses_delta = U(2)
                    /\ reading_delta = U(2))

\* C20 witness: the pulses at 0, 100, 6000 and 6050 have all been
\* delivered, the last one rejected 50 ms after the accepted pulse at 6000.
C20_Witness ==
    /\ probe.train = <<0, 100, 6000, 6050>>
    /\ TrainPulses = 4
    /\ io = "pulse_rejected"
    /\ millis = U(6050)
    /\ last_pulse_millis = U(6000)
    /\ used.acc = 2

\* get_reading() has executed line 371 and has not returned: the EEPROM
\* write of line 373 is about to start, in progress or done.
ReadingWriteWindow ==
    cur.op = "get_reading" /\ Head(pc) \in {"gr_wrap", "gr_put", "gr_ret"}

\* get_pulses() has executed line 386 and has not returned.
PulsesWriteWindow ==
    cur.op = "get_pulses" /\ Head(pc) \in {"gp_put", "gp_ret"}

\* C21: the getters zero their delta before they call EEPROM.put; from then
\* until the getter returns, a pulse that interrupt() accepts adds its
\* increment to the delta and no statement of the getter changes the delta
\* (or takes the pulse into the base), so the increment is in the delta
\* when the call returns; the next reconciliation adds the whole delta to
\* the base.
C21_PulseDuringWrite ==
    [][/\ Head(pc) = "gr_zero" /\ Head(pc') = "gr_wrap" =>
              reading_delta' = Zero32 /\ UNCHANGED eeprom
       /\ Head(pc) = "gp_zero" /\ Head(pc') = "gp_put" =>
              pulses_delta' = Zero32 /\ UNCHANGED eeprom
       /\ ReadingWriteWindow /\ pc' # <<"boot">> =>
              IF io' = "pulse_accepted"
              THEN /\ reading_delta' = Add32(reading_delta, pulse_increment)
                   /\ UNCHANGED <<reading, eeprom, pc>>
              ELSE UNCHANGED reading_delta
       /\ PulsesWriteWindow /\ pc' # <<"boot">> =>
              IF io' = "pulse_accepted"
              THEN /\ pulses_delta' = Add32(pulses_delta, One32)
                   /\ UNCHANGED <<pulses, eeprom, pc>>
              ELSE UNCHANGED pulses_delta
       /\ Head(pc) = "gr_add" /\ Head(pc') = "gr_zero" =>
              reading' = Add32(reading, reading_delta)
       /\ Head(pc) = "gp_add" /\ Head(pc') = "gp_zero" =>
              pulses' = Add32(pulses, pulses_delta)]_vars

\* C21 witness: get_reading() has written the EEPROM cell and is about to
\* return; the pulse accepted after line 371 is in the delta.
C21_Witness ==
    /\ At("gr_ret")
    /\ cur.op = "get_reading"
    /\ cur.wrote
    /\ cur.pulsed
    /\ cur.accr = pulse_increment
    /\ reading_delta = pulse_increment
    /\ eeprom.reading = reading

\* C22: when a getter has run init_reading (it was called with reading_valid
\* false) and no pulse has been accepted since the call began, both deltas
\* are zero when init_reading has returned, so that the getters return the
\* loaded bases.
C22_DeltasZeroAfterInit ==
    /\ At("gr_test") \/ At("gp_test")
    /\ cur.op \in {"get_reading", "get_pulses"}
    /\ ~cur.valid0
    /\ ~cur.pulsed
    => reading_delta = Zero32 /\ pulses_delta = Zero32

\* C23: when init_reading finds the stored seed marker equal to the
\* configured initial reading, it goes straight to the loads of lines
\* 431-432, no step until it returns changes the EEPROM record, and it
\* ends with reading and pulses equal to the stored reading and the stored
\* pulse count.
C23_OrdinaryRestart ==
    /\ [](MarkerMatched /\ (At("ir_end") \/ At("ir_ret")) =>
             /\ reading = eeprom.reading
             /\ pulses = eeprom.pulses
             /\ eeprom.init_copy = initial_meter_reading)
    /\ [][/\ /\ Head(pc) = "ir_begin"
              /\ initial_meter_reading = eeprom.init_copy
              /\ pc' # pc
              /\ pc' # <<"boot">>
              => Head(pc') = "ir_load" /\ UNCHANGED eeprom
          /\ MarkerMatched /\ Head(pc) \in {"ir_load", "ir_end", "ir_ret"} =>
                 UNCHANGED eeprom]_vars

\* C23 witness: the boot after a power loss finds the marker unchanged and
\* has loaded a reading and a pulse count stored before the loss.
C23_Witness ==
    /\ At("ir_ret")
    /\ MarkerMatched
    /\ pre.lost
    /\ pre.stored = eeprom
    /\ reading # Zero32
    /\ pulses # Zero32
    /\ reading # initial_meter_reading

\* C24: after(deadline, now) is true exactly when now = deadline + d
\* (mod 2^32) with 0 <= d <= 2^31, and false for every larger d, that is
\* when the deadline is 1 to 2^31 - 1 ms after now.
C24_AfterHalfRange ==
    probe.fn = "after" =>
        /\ probe.now = Add32(probe.then, probe.d)
        /\ probe.due = ~Gt32(probe.d, HALF)
        /\ ~probe.due =>
               /\ ~Lt32(Sub32(probe.then, probe.now), One32)
               /\ Lt32(Sub32(probe.then, probe.now), HALF)

\* C24 witness: the deadline was reached exactly 2^31 ms ago, across a wrap
\* of the clock.
C24_Witness ==
    /\ probe.fn = "after"
    /\ probe.d = HALF
    /\ probe.due
    /\ Lt32(probe.now, probe.then)

\* C25: while init_reading is inside its re-seed branch the stored seed
\* marker still differs from the configured initial reading, the marker
\* being the last cell written; and when power was lost inside the branch,
\* the init_reading of the next boot re-seeds again and ends with
\* reading = the configured initial reading, pulses = 0 and the EEPROM
\* record (configured value, 0, configured value).
C25_ReseedRecovered ==
    /\ InReseed =>
           /\ eeprom.init_copy # cfg.initial
           /\ loc.init_value = cfg.initial
    /\ pre.lost /\ pre.reseeding /\ ~attached /\ At("ir_ret") =>
           /\ loc.reseed
           /\ reading = cfg.initial
           /\ pulses = Zero32
           /\ reading_delta = Zero32
           /\ eeprom = EepromRecord(cfg.initial, Zero32, cfg.initial)

\* C25 witness: power was lost when the re-seed had written the new reading
\* but not yet the pulse count and the marker; the next boot has repeated
\* the re-seed.
C25_Witness ==
    /\ pre.lost
    /\ pre.reseeding
    /\ ~attached
    /\ At("ir_ret")
    /\ pre.stored.reading = cfg.initial
    /\ pre.stored.pulses # Zero32
    /\ pre.stored.init_copy # cfg.initial
    /\ eeprom = EepromRecord(cfg.initial, Zero32, cfg.initial)

\* The main context is inside get_reading, get_pulses, reset_reading,
\* reset_pulses or init_reading.
InCounterCode ==
    Head(pc) \in {"gr_begin", "gr_test", "gr_add", "gr_zero", "gr_wrap", "gr_put", "gr_ret",
                  "gp_begin", "gp_test", "gp_add", "gp_zero", "gp_put", "gp_ret",
                  "rr_base", "rr_delta", "rr_put", "rr_ret",
                  "rp_base", "rp_delta", "rp_put", "rp_ret",
                  "ir_begin", "ir_put_reading", "ir_put_pulses", "ir_put_copy",
                  "ir_load", "ir_end", "ir_ret"}

\* C26: whenever reading_valid is true and the main context is outside
\* get_reading, get_pulses, reset_reading, reset_pulses and init_reading,
\* the EEPROM reading cell equals reading and the EEPROM pulse-count cell
\* equals pulses.
C26_BasesStored ==
    reading_valid /\ ~InCounterCode =>
        /\ eeprom.reading = reading
        /\ eeprom.pulses = pulses

\* C26 witness: between two activations, after a get_pulses that stored a
\* pulse count and with a pulse accepted since, not yet stored.
C26_Witness ==
    /\ Idle
    /\ reading_valid
    /\ last.op = "get_pulses"
    /\ last.wrote
    /\ pulses # Zero32
    /\ pulses_delta # Zero32
    /\ reading_delta # Zero32
    /\ eeprom.pulses = pulses

\* C27: in the reading-only variant, a pulse that comes less than
\* debounce_time after the last accepted pulse is rejected, and a pulse
\* that comes debounce_time or more (and less than 2^31 ms) after it is
\* accepted.
C27_VariantDebounce ==
    /\ io = "pulse_accepted" /\ used.acc > 1 => ~Shorter(used.gap, debounce_time)
    /\ io = "pulse_rejected" /\ used.acc > 0 /\ used.age[1] = 0 /\ Small(used.age[2]) =>
           Shorter(used.age, debounce_time)

\* C28: on a freshly seeded meter (initial reading 0) with no reset, no
\* configuration change and no power loss, whenever both deltas are zero
\* between two activations, the EEPROM pulse count is the number of pulses
\* accepted and the EEPROM reading is their increments: once pulses have
\* stopped and the counters have been reconciled, every accepted pulse is
\* durable.
C28_DurableCount ==
    /\ Idle
    /\ reading_valid
    /\ reading_delta = Zero32
    /\ pulses_delta = Zero32
    => /\ Val(eeprom.pulses) = used.acc
       /\ Val(eeprom.reading) = used.acc * Val(pulse_increment)

\* C29: when get_pulses returns, and an earlier get_pulses has returned in
\* the same power cycle with no reset_pulses and no re-seed since, the
\* value it returns is not less than the value the earlier call returned
\* plus the number of pulses accepted after that call returned and before
\* this one began.
C29_PulsesMonotonic ==
    At("gp_ret") /\ cur.op = "get_pulses" /\ used.gpa >= 0 =>
        /\ Small(pulses)
        /\ ~Lt32(pulses, used.gpv)
        /\ Val(pulses) >= Val(used.gpv) + (used.acc - Val(cur.accp) - used.gpa)

\* C29 witness: the second get_pulses returns a greater count than the
\* first, one pulse having been accepted between the two calls and another
\* one during the second call.
C29_Witness ==
    /\ At("gp_ret")
    /\ cur.op = "get_pulses"
    /\ used.gpa >= 0
    /\ cur.accp = One32
    /\ used.acc - Val(cur.accp) - used.gpa = 1
    /\ Gt32(pulses, used.gpv)

=============================================================================
